---- MODULE Spec2Model ----
(***************************************************************************)
(* Content-performance pipeline of otherwhere666/automatedseo.             *)
(*                                                                         *)
(*   analyze-performance.js  (src/unnamed/part_002)                        *)
(*       classifyPage, generateActions: pure functions, exported.          *)
(*   scripts/apply-performance-actions.js                                  *)
(*       applyActions: the dispatch run over data/content-performance.json *)
(*       writing data/action-results.json.                                 *)
(*                                                                         *)
(* Four specifications share the variables:                                *)
(*   SpecPolicy  calls classifyPage and generateActions on bounded inputs; *)
(*   SpecRoles   calls getPageRole on bounded role maps and page paths;    *)
(*   SpecAnalyze is one classification run (analyzePerformance);           *)
(*   Spec        is one dispatch run (applyActions) over a snapshot.       *)
(*                                                                         *)
(* JavaScript values: null and a missing file are the empty tuple, a       *)
(* present optional value v is <<v>>; objects are records whose DOMAIN is  *)
(* the set of keys the code sets, so a key the code never sets is absent.  *)
(***************************************************************************)
EXTENDS Integers, Sequences, FiniteSets, TLC

VARIABLES
    \* ---- harness of the exported pure functions (part_002) ----
    ppc,            \* "idle" | "classified" | "policy"
    metrics,        \* the PageMetrics record handed to classifyPage
    bucket,         \* what classifyPage returned
    bucketArg,      \* bucket argument of the generateActions call
    roleArg,        \* role argument of the generateActions call
    actions,        \* what generateActions returned
    \* ---- dispatch run (apply-performance-actions.js) ----
    pc,             \* position of applyActions
    performanceFile,\* data/content-performance.json: <<>> or <<content>>
    data,           \* local `data` of applyActions once loaded
    i,              \* index of the page of the outer for-of loop
    j,              \* index of the action of the inner for-of loop
    results,        \* local `results` of applyActions
    calls,          \* history: one entry per applyAction call that returned
                    \* (page and action index, whether a page file was probed
                    \* and found, the generative calls made, the result)
    resultsFile,    \* data/action-results.json: <<>> or <<content>>
    rejected,       \* <<>> or <<where>>: where the promise of applyActions rejected
    exitCode,       \* <<>> while the dispatch process runs, <<code>> once it exited
    \* ---- harness of getPageRole (part_002) ----
    rpc,            \* "idle" | "resolved"
    pagePathArg,    \* pagePath argument of the getPageRole call
    rolesArg,       \* roles argument of the getPageRole call
    roleResult,     \* what getPageRole returned
    \* ---- classification run (analyze-performance.js, part_002) ----
    apc,            \* position of analyzePerformance
    propertyId,     \* whether GA4_PROPERTY_ID is set
    provider,       \* what the metrics provider answers to the two runReport calls
    rolesFile,      \* data/content-roles.json: <<>> or <<content>>
    requests,       \* number of runReport calls made
    fetched,        \* `metrics` of fetchGA4Metrics / analyzePerformance: the
                    \* entries [pagePath, metrics] in Object.entries order
    roles,          \* `roles` of analyzePerformance
    entryIndex,     \* index of the entry of the for-of loop
    records,        \* `results` of analyzePerformance: the PerformanceRecords
    summary,        \* `summary` of analyzePerformance
    classified,     \* history: slug, role and bucket of every entry processed
    snapshotFile,   \* data/content-performance.json as written by the run
    analyzeRejected,\* <<>> or <<where>>: where analyzePerformance rejected
    analyzeExitCode,\* <<>> while the analysis process runs, <<code>> once it exited
    \* ---- harness of applyAction (apply-performance-actions.js) ----
    xpc,            \* "ready" | "returned"
    pageArg,        \* page argument of the applyAction call
    actionArg,      \* action argument of the applyAction call
    actionOutcome,  \* what applyAction returned and what it did on the way
    \* ---- daily run (auto-generate.js) ----
    gpc,            \* position of main
    queueFile,      \* data/topics-queue.json: <<>> or <<content>>
    topic,          \* local `topic` of main: <<>> while undefined
    consoleLog,     \* the lines main has printed
    lastGeneratedTitle, \* .last-generated-title: <<>> or <<title>>
    autoGenExitCode \* <<>> while the daily process runs, <<code>> once it exited

policyVars == <<ppc, metrics, bucket, bucketArg, roleArg, actions>>
dispatchVars == <<pc, performanceFile, data, i, j, results, calls, resultsFile, rejected>>
rolesVars == <<rpc, pagePathArg, rolesArg, roleResult>>
analyzeVars == <<apc, propertyId, provider, rolesFile, requests, fetched, roles, entryIndex, records,
                 summary, classified, snapshotFile, analyzeRejected, analyzeExitCode>>
actionVars == <<xpc, pageArg, actionArg, actionOutcome>>
autoGenVars == <<gpc, queueFile, topic, consoleLog, lastGeneratedTitle, autoGenExitCode>>
vars == <<ppc, metrics, bucket, bucketArg, roleArg, actions,
          pc, performanceFile, data, i, j, results, calls, resultsFile, rejected, exitCode,
          rpc, pagePathArg, rolesArg, roleResult,
          apc, propertyId, provider, rolesFile, requests, fetched, roles, entryIndex, records,
          summary, classified, snapshotFile, analyzeRejected, analyzeExitCode,
          xpc, pageArg, actionArg, actionOutcome,
          gpc, queueFile, topic, consoleLog, lastGeneratedTitle, autoGenExitCode>>

(***************************************************************************)
(* Bounds of the model                                                     *)
(***************************************************************************)
MaxPages == 2

(***************************************************************************)
(* analyze-performance.js: thresholds, classifier, action policy           *)
(***************************************************************************)

\* null, as returned by classifyPage for "no action needed"
Null == "null"

\* lowCTR (0.02) and highExitRate (0.7) are kept as exact fractions num/den.
\* For non-negative integer counters the IEEE-754 comparisons of the source
\* agree with the exact ones: pageviews * 0.02 rounds to the integer
\* pageviews/50 whenever that is an integer, and exits/entrances is the
\* correctly rounded quotient, equal to the literal 0.7 exactly when
\* 10 * exits = 7 * entrances.
THRESHOLDS ==
    [ highImpressions  |-> 100,
      strongEngagement |-> 60,
      lowCTR           |-> [num |-> 2, den |-> 100],
      highEntrances    |-> 50,
      highExitRate     |-> [num |-> 7, den |-> 10],
      lowImpressions   |-> 10 ]

\* const hasConversions = m.events && Object.values(m.events).some(v => v > 0)
\* m.events is <<>> when the key is undefined, <<f>> for the object f.
hasConversions(m) ==
    /\ m.events # <<>>
    /\ \E name \in DOMAIN m.events[1] : m.events[1][name] > 0

\* const exitRate = m.entrances > 0 ? m.exits / m.entrances : 0
\* a fraction num/den; dividing by zero is den = 0 (Infinity or NaN in JS).
exitRate_unguarded(m) ==
    [num |-> m.exits, den |-> m.entrances]

exitRate(m) ==
    IF m.entrances > 0
    THEN [num |-> m.exits, den |-> m.entrances]
    ELSE [num |-> 0, den |-> 1]

\* x >= t for fractions x, t; n/0 is Infinity for n > 0 and NaN for n = 0,
\* and every comparison with NaN is false
FracGeq(x, t) ==
    IF x.den = 0 THEN x.num > 0 ELSE x.num * t.den >= t.num * x.den

\* n < k * t for the integer n, the integer k and the fraction t
LessThanScaled(n, k, t) == n * t.den < k * t.num

\* mutants of classifyPage
classifyPage_strict(pagePath, m, role) ==
    IF /\ m.pageviews > THRESHOLDS.highImpressions
       /\ m.avgEngagement > THRESHOLDS.strongEngagement
       /\ hasConversions(m)
    THEN "A"
    ELSE IF /\ m.pageviews >= THRESHOLDS.highImpressions
            /\ LessThanScaled(m.entrances, m.pageviews, THRESHOLDS.lowCTR)
    THEN "B"
    ELSE IF m.avgEngagement >= THRESHOLDS.strongEngagement /\ ~hasConversions(m)
    THEN "C"
    ELSE IF /\ m.entrances >= THRESHOLDS.highEntrances
            /\ FracGeq(exitRate(m), THRESHOLDS.highExitRate)
    THEN "D"
    ELSE IF /\ m.pageviews < THRESHOLDS.lowImpressions
            /\ m.avgEngagement < THRESHOLDS.strongEngagement
    THEN "F"
    ELSE Null

classifyPage_BFirst(pagePath, m, role) ==
    IF /\ m.pageviews >= THRESHOLDS.highImpressions
       /\ LessThanScaled(m.entrances, m.pageviews, THRESHOLDS.lowCTR)
    THEN "B"
    ELSE IF /\ m.pageviews >= THRESHOLDS.highImpressions
            /\ m.avgEngagement >= THRESHOLDS.strongEngagement
            /\ hasConversions(m)
    THEN "A"
    ELSE IF m.avgEngagement >= THRESHOLDS.strongEngagement /\ ~hasConversions(m)
    THEN "C"
    ELSE IF /\ m.entrances >= THRESHOLDS.highEntrances
            /\ FracGeq(exitRate(m), THRESHOLDS.highExitRate)
    THEN "D"
    ELSE IF /\ m.pageviews < THRESHOLDS.lowImpressions
            /\ m.avgEngagement < THRESHOLDS.strongEngagement
    THEN "F"
    ELSE Null

\* function classifyPage(pagePath, metrics, role): pagePath and role are unused
classifyPage(pagePath, m, role) ==
    IF /\ m.pageviews >= THRESHOLDS.highImpressions
       /\ m.avgEngagement >= THRESHOLDS.strongEngagement
       /\ hasConversions(m)
    THEN "A"
    ELSE IF /\ m.pageviews >= THRESHOLDS.highImpressions
            /\ LessThanScaled(m.entrances, m.pageviews, THRESHOLDS.lowCTR)
    THEN "B"
    ELSE IF m.avgEngagement >= THRESHOLDS.strongEngagement /\ ~hasConversions(m)
    THEN "C"
    ELSE IF /\ m.entrances >= THRESHOLDS.highEntrances
            /\ FracGeq(exitRate(m), THRESHOLDS.highExitRate)
    THEN "D"
    ELSE IF /\ m.pageviews < THRESHOLDS.lowImpressions
            /\ m.avgEngagement < THRESHOLDS.strongEngagement
    THEN "F"
    ELSE Null

\* mutant of bucketActions: an identifier that no tier list holds
bucketActions_unlistedAction(b, role) ==
    CASE b = "A" -> <<"expand_topic_cluster", "add_internal_links", "add_faq_block">>
      [] b = "B" -> <<"rewrite_meta", "add_quick_answer">>
      [] b = "C" -> IF role # "comprehension"
                    THEN <<"swap_cta_variant", "add_mid_article_cta">>
                    ELSE <<>>
      [] b = "D" -> <<"add_next_steps_section", "strengthen_internal_links",
                      "add_related_content">>
      [] b = "F" -> IF role = "comprehension"
                    THEN <<"flag_for_review">>
                    ELSE <<"consider_noindex", "rewrite_with_new_angle">>
      [] OTHER   -> <<>>

\* mutant of bucketActions: the role is not consulted inside the switch
bucketActions_noRoleSplit(b, role) ==
    CASE b = "A" -> <<"expand_topic_cluster", "add_internal_links_to", "add_faq_block">>
      [] b = "B" -> <<"rewrite_meta", "add_quick_answer">>
      [] b = "C" -> <<"swap_cta_variant", "add_mid_article_cta">>
      [] b = "D" -> <<"add_next_steps_section", "strengthen_internal_links",
                      "add_related_content">>
      [] b = "F" -> <<"consider_noindex", "rewrite_with_new_angle">>
      [] OTHER   -> <<>>

\* switch (bucket) { ... } of generateActions: the actions pushed per case
bucketActions(b, role) ==
    CASE b = "A" -> <<"expand_topic_cluster", "add_internal_links_to", "add_faq_block">>
      [] b = "B" -> <<"rewrite_meta", "add_quick_answer">>
      [] b = "C" -> IF role # "comprehension"
                    THEN <<"swap_cta_variant", "add_mid_article_cta">>
                    ELSE <<>>
      [] b = "D" -> <<"add_next_steps_section", "strengthen_internal_links",
                      "add_related_content">>
      [] b = "F" -> IF role = "comprehension"
                    THEN <<"flag_for_review">>
                    ELSE <<"consider_noindex", "rewrite_with_new_angle">>
      [] OTHER   -> <<>>

\* mutant of generateActions: the guardrail is applied to classified pages only
generateActions_guardClassifiedOnly(b, role) ==
    IF role = "trust" /\ b # Null
    THEN <<"flag_for_review">>
    ELSE bucketActions(b, role)

\* mutant of generateActions: the guardrail does not return early
generateActions_trustAppends(b, role) ==
    IF role = "trust"
    THEN <<"flag_for_review">> \o bucketActions(b, role)
    ELSE bucketActions(b, role)

\* function generateActions(bucket, role)
generateActions(b, role) ==
    IF role = "trust"
    THEN <<"flag_for_review">>
    ELSE bucketActions(b, role)

(***************************************************************************)
(* analyze-performance.js: role resolver                                   *)
(*                                                                         *)
(* A path or pattern is the sequence of its "/" characters and of the      *)
(* maximal runs of other characters between them: "/case-studies/*" is     *)
(* <<"/", "case-studies", "/", "*">>.  endsWith('/*') then looks at the    *)
(* last two elements, slice(0, -1) drops the last one, and startsWith of a *)
(* prefix that ends in "/" is a prefix of the sequence.  A role map is the *)
(* sequence of its entries [key, role] in Object.entries order.            *)
(***************************************************************************)

\* String.prototype.startsWith
startsWith(str, prefix) ==
    /\ Len(prefix) <= Len(str)
    /\ SubSeq(str, 1, Len(prefix)) = prefix

\* pattern.endsWith('/*')
endsWithWildcard(pattern) ==
    /\ Len(pattern) >= 2
    /\ pattern[Len(pattern) - 1] = "/"
    /\ pattern[Len(pattern)] = "*"

\* pattern.slice(0, -1), for a pattern that ends with '/*'
sliceLast(pattern) == SubSeq(pattern, 1, Len(pattern) - 1)

\* roles[pagePath]: <<>> for undefined, <<role>> otherwise
roleOfKey(rolesMap, key) ==
    IF \E k \in 1..Len(rolesMap) : rolesMap[k].key = key
    THEN <<rolesMap[CHOOSE k \in 1..Len(rolesMap) : rolesMap[k].key = key].role>>
    ELSE <<>>

\* the wildcard loop of getPageRole: the entries whose pattern matches
wildcardMatches(pagePath, rolesMap) ==
    { k \in 1..Len(rolesMap) :
        /\ endsWithWildcard(rolesMap[k].key)
        /\ startsWith(pagePath, sliceLast(rolesMap[k].key)) }

\* mutant of getPageRole: the wildcard loop runs before the direct match
getPageRole_wildcardFirst(pagePath, rolesMap) ==
    LET hits == wildcardMatches(pagePath, rolesMap)
    IN IF hits # {}
       THEN rolesMap[CHOOSE k \in hits : \A l \in hits : k <= l].role
       ELSE IF roleOfKey(rolesMap, pagePath) # <<>>
       THEN roleOfKey(rolesMap, pagePath)[1]
       ELSE "acquisition"

\* function getPageRole(pagePath, roles); every role of a map is a
\* non-empty string, so roles[pagePath] is truthy whenever the key exists
getPageRole(pagePath, rolesMap) ==
    LET hits == wildcardMatches(pagePath, rolesMap)
    IN IF roleOfKey(rolesMap, pagePath) # <<>>
       THEN roleOfKey(rolesMap, pagePath)[1]
       ELSE IF hits # {}
       THEN rolesMap[CHOOSE k \in hits : \A l \in hits : k <= l].role
       ELSE "acquisition"

(***************************************************************************)
(* Inputs of the pure functions                                            *)
(***************************************************************************)

\* roles of the default role map of getContentRoles
DefaultRoles == {"trust", "acquisition", "comprehension"}

\* roles of the default role map, and one role outside it
Roles == {"trust", "acquisition", "comprehension", "conversion"}

\* the values classifyPage returns, and "E", a bucket no rule produces
\* (the summary of analyzePerformance carries an E counter)
BucketArgs == {"A", "B", "C", "D", "E", "F", Null}

\* two of the four event names of the conversion-event query
EventNames == {"sms_click", "gpt_click"}
EventCounts == {0, 12}
EventObjects == UNION {[S -> EventCounts] : S \in SUBSET EventNames}

\* counters on both sides of every threshold
PageviewsValues == {THRESHOLDS.lowImpressions - 1, THRESHOLDS.lowImpressions,
                    THRESHOLDS.highImpressions - 1, THRESHOLDS.highImpressions, 250}
EntrancesValues == {0, 1, 2, 4, 5, THRESHOLDS.highEntrances - 1, THRESHOLDS.highEntrances}
EngagementValues == {40, THRESHOLDS.strongEngagement - 1, THRESHOLDS.strongEngagement, 95}
ExitsValues == {0, 34, 35, 80}

MetricsValues ==
    [ pageviews : PageviewsValues,
      entrances : EntrancesValues,
      avgEngagement : EngagementValues,
      exits : ExitsValues,
      events : {<<>>} \cup {<<f>> : f \in EventObjects} ]

(***************************************************************************)
(* State of a dispatch run before it starts; SpecPolicy leaves it alone    *)
(***************************************************************************)
DispatchIdle ==
    /\ pc = "idle"
    /\ performanceFile = <<>>
    /\ data = <<>>
    /\ i = 0
    /\ j = 0
    /\ results = <<>>
    /\ calls = <<>>
    /\ resultsFile = <<>>
    /\ rejected = <<>>
    /\ exitCode = <<>>

RolesIdle ==
    /\ rpc = "off"
    /\ pagePathArg = <<>>
    /\ rolesArg = <<>>
    /\ roleResult = Null

AnalyzeIdle ==
    /\ apc = "off"
    /\ propertyId = FALSE
    /\ provider = <<>>
    /\ rolesFile = <<>>
    /\ requests = 0
    /\ fetched = <<>>
    /\ roles = <<>>
    /\ entryIndex = 0
    /\ records = <<>>
    /\ summary = <<>>
    /\ classified = <<>>
    /\ snapshotFile = <<>>
    /\ analyzeRejected = <<>>
    /\ analyzeExitCode = <<>>

ActionIdle ==
    /\ xpc = "off"
    /\ pageArg = <<>>
    /\ actionArg = <<>>
    /\ actionOutcome = <<>>

AutoGenIdle ==
    /\ gpc = "off"
    /\ queueFile = <<>>
    /\ topic = <<>>
    /\ consoleLog = <<>>
    /\ lastGeneratedTitle = <<>>
    /\ autoGenExitCode = <<>>

PolicyIdle ==
    /\ ppc = "off"
    /\ metrics = <<>>
    /\ bucket = Null
    /\ bucketArg = Null
    /\ roleArg = Null
    /\ actions = <<>>

(***************************************************************************)
(* SpecPolicy: calls of the exported pure functions                        *)
(***************************************************************************)
InitPolicy ==
    /\ ppc = "idle"
    /\ metrics \in MetricsValues
    /\ bucket = Null
    /\ bucketArg = Null
    /\ roleArg = Null
    /\ actions = <<>>
    /\ DispatchIdle
    /\ RolesIdle
    /\ AnalyzeIdle
    /\ ActionIdle
    /\ AutoGenIdle

\* bucket = classifyPage(pagePath, pageMetrics, role)
CallClassifyPage ==
    /\ ppc = "idle"
    /\ \E role \in Roles : bucket' = classifyPage("/page", metrics, role)
    /\ ppc' = "classified"
    /\ UNCHANGED <<metrics, bucketArg, roleArg, actions>>
    /\ UNCHANGED <<dispatchVars, exitCode, rolesVars, analyzeVars, actionVars, autoGenVars>>

\* actions = generateActions(bucket, role), for any bucket and role
CallGenerateActions ==
    /\ ppc = "classified"
    /\ \E b \in BucketArgs, role \in Roles :
          /\ bucketArg' = b
          /\ roleArg' = role
          /\ actions' = generateActions(b, role)
    /\ ppc' = "policy"
    /\ UNCHANGED <<metrics, bucket>>
    /\ UNCHANGED <<dispatchVars, exitCode, rolesVars, analyzeVars, actionVars, autoGenVars>>

NextPolicy == CallClassifyPage \/ CallGenerateActions

SpecPolicy == InitPolicy /\ [][NextPolicy]_vars

(***************************************************************************)
(* SpecRoles: calls of getPageRole                                         *)
(***************************************************************************)

\* number of entries of a role map
MaxRoleEntries == 2

\* page paths "/a/b", "/a/", "/a", "/ab", "/c/d"
TestPaths ==
    { <<"/", "a", "/", "b">>, <<"/", "a", "/">>, <<"/", "a">>, <<"/", "ab">>,
      <<"/", "c", "/", "d">> }

\* keys "/a/b", "/a/*", "/*", "/a*", "/c/*"
TestKeys ==
    { <<"/", "a", "/", "b">>, <<"/", "a", "/", "*">>, <<"/", "*">>, <<"/", "a*">>,
      <<"/", "c", "/", "*">> }

\* the role maps of at most MaxRoleEntries entries: the keys of an object
\* are distinct
RoleMaps ==
    UNION { { f \in [1..len -> [key : TestKeys, role : DefaultRoles]] :
                \A k, l \in 1..len : k # l => f[k].key # f[l].key }
            : len \in 0..MaxRoleEntries }

InitRoles ==
    /\ rpc = "idle"
    /\ pagePathArg \in TestPaths
    /\ rolesArg \in RoleMaps
    /\ roleResult = Null
    /\ PolicyIdle
    /\ DispatchIdle
    /\ AnalyzeIdle
    /\ ActionIdle
    /\ AutoGenIdle

\* const role = getPageRole(pagePath, roles)
CallGetPageRole ==
    /\ rpc = "idle"
    /\ roleResult' = getPageRole(pagePathArg, rolesArg)
    /\ rpc' = "resolved"
    /\ UNCHANGED <<pagePathArg, rolesArg>>
    /\ UNCHANGED <<policyVars, dispatchVars, exitCode, analyzeVars, actionVars, autoGenVars>>

NextRoles == CallGetPageRole

SpecRoles == InitRoles /\ [][NextRoles]_vars

(***************************************************************************)
(* apply-performance-actions.js: tiers, applyAction                        *)
(***************************************************************************)

\* Actions that can be fully automated
AUTO_ACTIONS ==
    <<"rewrite_meta", "add_quick_answer", "add_internal_links_to",
      "add_next_steps_section", "add_related_content">>

\* Actions that create drafts for review
DRAFT_ACTIONS ==
    <<"expand_topic_cluster", "add_faq_block", "swap_cta_variant",
      "add_mid_article_cta", "rewrite_with_new_angle">>

\* Actions that only flag for human review
REVIEW_ACTIONS ==
    <<"flag_for_review", "consider_noindex", "strengthen_internal_links">>

\* Array.prototype.includes
includes(array, x) == \E k \in 1..Len(array) : array[k] = x

\* const possibilities = [...] of findPageFile
possibilities(slug) ==
    << <<"src/pages", slug, ".astro">>,
       <<"src/pages", slug, "/index.astro">>,
       <<"content/posts", slug, ".mdx">> >>

\* findPageFile(slug): access[k] tells whether fs.access of the k-th
\* candidate succeeds; the first accessible candidate, or null (<<>>)
findPageFile(slug, access) ==
    IF \E k \in 1..3 : access[k]
    THEN LET first == CHOOSE k \in 1..3 : access[k] /\ \A l \in 1..(k - 1) : ~access[l]
         IN <<possibilities(slug)[first]>>
    ELSE <<>>

\* String.prototype.trim on a text given as a sequence of characters
RECURSIVE trimStart(_)
trimStart(t) ==
    IF t # <<>> /\ Head(t) = " " THEN trimStart(Tail(t)) ELSE t

RECURSIVE trimEnd(_)
trimEnd(t) ==
    IF t # <<>> /\ t[Len(t)] = " " THEN trimEnd(SubSeq(t, 1, Len(t) - 1)) ELSE t

trim(t) == trimEnd(trimStart(t))

\* await anthropic.messages.create(...); return message.content[0].text.trim()
\* gen is what the service does with the request: it answers with a text or
\* the call throws an Error with a message.
generativeCall(gen) ==
    IF gen.ok
    THEN [ok |-> TRUE, value |-> trim(gen.text)]
    ELSE [ok |-> FALSE, error |-> [message |-> gen.message]]

generateMetaRewrite(slug, currentMeta, gen) == generativeCall(gen)
generateQuickAnswer(slug, pageContent, gen) == generativeCall(gen)
generateNextSteps(slug, gen) == generativeCall(gen)

\* mutants of catchError: no catch clause, and a catch that loses the message
catchError_rethrow(slug, action, error) ==
    [thrown |-> error.message]

catchError_noMessage(slug, action, error) ==
    [status |-> "error", message |-> <<slug, ": ", action, " - failed">>]

\* catch (error) { return { status: 'error', message: ... error.message } }
\* a record without status, [thrown |-> m], stands for applyAction throwing
catchError(slug, action, error) ==
    [status |-> "error", message |-> <<slug, ": ", action, " - ", error.message>>]

\* mutant of tryBlock: the default case falls back to the quick answer
tryBlock_defaultGenerates(slug, action, gen) ==
    LET quickAnswer == generateQuickAnswer(slug, <<>>, gen)
    IN [ generative |-> <<[fn |-> "generateQuickAnswer", outcome |-> gen]>>,
         result |-> IF quickAnswer.ok
                    THEN [ status |-> "generated", action |-> action, slug |-> slug,
                           output |-> quickAnswer.value,
                           message |-> <<slug, ": quick answer generated">> ]
                    ELSE catchError(slug, action, quickAnswer.error) ]

\* the try block of applyAction: switch (action) { ... }
\* returns the result and the generative calls made (at most one)
tryBlock(slug, action, gen) ==
    CASE action = "rewrite_meta" ->
           LET newMeta == generateMetaRewrite(slug, <<>>, gen)
           IN [ generative |-> <<[fn |-> "generateMetaRewrite", outcome |-> gen]>>,
                result |-> IF newMeta.ok
                           THEN [ status |-> "generated", action |-> action, slug |-> slug,
                                  output |-> newMeta.value,
                                  message |-> <<slug, ": new meta generated - \"",
                                                newMeta.value, "\"">> ]
                           ELSE catchError(slug, action, newMeta.error) ]
      [] action = "add_quick_answer" ->
           LET quickAnswer == generateQuickAnswer(slug, <<>>, gen)
           IN [ generative |-> <<[fn |-> "generateQuickAnswer", outcome |-> gen]>>,
                result |-> IF quickAnswer.ok
                           THEN [ status |-> "generated", action |-> action, slug |-> slug,
                                  output |-> quickAnswer.value,
                                  message |-> <<slug, ": quick answer generated">> ]
                           ELSE catchError(slug, action, quickAnswer.error) ]
      [] action = "add_next_steps_section" ->
           LET nextSteps == generateNextSteps(slug, gen)
           IN [ generative |-> <<[fn |-> "generateNextSteps", outcome |-> gen]>>,
                result |-> IF nextSteps.ok
                           THEN [ status |-> "generated", action |-> action, slug |-> slug,
                                  output |-> nextSteps.value,
                                  message |-> <<slug, ": next steps section generated">> ]
                           ELSE catchError(slug, action, nextSteps.error) ]
      [] OTHER ->
           [ generative |-> <<>>,
             result |-> [ status |-> "skipped",
                          message |-> <<slug, ": ", action, " - not implemented">> ] ]

\* mutants of applyAction: the missing page file is not checked; the page
\* file is probed before the tier of the action is looked at
applyAction_noFileCheck(page, action, access, gen) ==
    LET slug == page.slug
        filePath == findPageFile(slug, access)
    IN IF includes(REVIEW_ACTIONS, action)
       THEN [ result |-> [ status |-> "flagged",
                           message |-> <<slug, ": ", action, " - needs manual review">> ],
              probed |-> FALSE, filePath |-> <<>>, generative |-> <<>>, written |-> <<>> ]
       ELSE IF includes(DRAFT_ACTIONS, action)
       THEN [ result |-> [ status |-> "draft",
                           message |-> <<slug, ": ", action, " - draft created for review">> ],
              probed |-> FALSE, filePath |-> <<>>, generative |-> <<>>, written |-> <<>> ]
       ELSE LET t == tryBlock(slug, action, gen)
            IN [ result |-> t.result, probed |-> TRUE, filePath |-> filePath,
                 generative |-> t.generative, written |-> <<>> ]

applyAction_probeFirst(page, action, access, gen) ==
    LET slug == page.slug
        filePath == findPageFile(slug, access)
    IN IF filePath = <<>>
       THEN [ result |-> [ status |-> "skipped", message |-> <<slug, ": file not found">> ],
              probed |-> TRUE, filePath |-> <<>>, generative |-> <<>>, written |-> <<>> ]
       ELSE IF includes(REVIEW_ACTIONS, action)
       THEN [ result |-> [ status |-> "flagged",
                           message |-> <<slug, ": ", action, " - needs manual review">> ],
              probed |-> TRUE, filePath |-> filePath, generative |-> <<>>, written |-> <<>> ]
       ELSE IF includes(DRAFT_ACTIONS, action)
       THEN [ result |-> [ status |-> "draft",
                           message |-> <<slug, ": ", action, " - draft created for review">> ],
              probed |-> TRUE, filePath |-> filePath, generative |-> <<>>, written |-> <<>> ]
       ELSE LET t == tryBlock(slug, action, gen)
            IN [ result |-> t.result, probed |-> TRUE, filePath |-> filePath,
                 generative |-> t.generative, written |-> <<>> ]

\* mutant of applyAction: the draft tier creates a draft file
applyAction_draftArtifact(page, action, access, gen) ==
    LET slug == page.slug
        filePath == findPageFile(slug, access)
    IN IF includes(REVIEW_ACTIONS, action)
       THEN [ result |-> [ status |-> "flagged",
                           message |-> <<slug, ": ", action, " - needs manual review">> ],
              probed |-> FALSE, filePath |-> <<>>, generative |-> <<>>, written |-> <<>> ]
       ELSE IF includes(DRAFT_ACTIONS, action)
       THEN [ result |-> [ status |-> "draft",
                           message |-> <<slug, ": ", action, " - draft created for review">> ],
              probed |-> FALSE, filePath |-> <<>>, generative |-> <<>>,
              written |-> << <<"drafts", slug, action>> >> ]
       ELSE IF filePath = <<>>
       THEN [ result |-> [ status |-> "skipped", message |-> <<slug, ": file not found">> ],
              probed |-> TRUE, filePath |-> <<>>, generative |-> <<>>, written |-> <<>> ]
       ELSE LET t == tryBlock(slug, action, gen)
            IN [ result |-> t.result, probed |-> TRUE, filePath |-> filePath,
                 generative |-> t.generative, written |-> <<>> ]

\* async function applyAction(page, action)
\* access and gen are the answers of the file system and of the generative
\* service; the value tells the result and what the call did on the way:
\* probed (findPageFile ran), filePath, generative (the service calls made),
\* written (the files the call created or changed: it has no write).
applyAction(page, action, access, gen) ==
    LET slug == page.slug
        filePath == findPageFile(slug, access)
    IN IF includes(REVIEW_ACTIONS, action)
       THEN [ result |-> [ status |-> "flagged",
                           message |-> <<slug, ": ", action, " - needs manual review">> ],
              probed |-> FALSE, filePath |-> <<>>, generative |-> <<>>, written |-> <<>> ]
       ELSE IF includes(DRAFT_ACTIONS, action)
       THEN [ result |-> [ status |-> "draft",
                           message |-> <<slug, ": ", action, " - draft created for review">> ],
              probed |-> FALSE, filePath |-> <<>>, generative |-> <<>>, written |-> <<>> ]
       ELSE IF filePath = <<>>
       THEN [ result |-> [ status |-> "skipped", message |-> <<slug, ": file not found">> ],
              probed |-> TRUE, filePath |-> <<>>, generative |-> <<>>, written |-> <<>> ]
       ELSE LET t == tryBlock(slug, action, gen)
            IN [ result |-> t.result, probed |-> TRUE, filePath |-> filePath,
                 generative |-> t.generative, written |-> <<>> ]

(***************************************************************************)
(* apply-performance-actions.js: the dispatch run                          *)
(***************************************************************************)

\* slugs of the pages of a snapshot (the keys of the sample dataset)
Slugs ==
    << "/what-is-otherwhere", "/otherwhere-vs-chatgpt", "/what-is-ai-travel-concierge",
       "/case-studies/honeymoon-puglia", "/destinations/lisbon" >>

Buckets == {"A", "B", "C", "D", "F"}

\* a PerformanceRecord as analyzePerformance pushes it; its metrics summary
\* and analyzed_at only feed the prompt text and are left out
PerformanceRecord(slug, b, role) ==
    [slug |-> slug, content_role |-> role, bucket |-> b, actions |-> generateActions(b, role)]

\* the snapshots analyzePerformance can write with at most MaxPages records,
\* and a file whose content has no pages key
Snapshots ==
    { [period |-> "28_days"] } \cup
    UNION { { [ period |-> "28_days",
                pages |-> [k \in 1..n |-> PerformanceRecord(Slugs[k], f[k][1], f[k][2])] ]
              : f \in [1..n -> Buckets \X DefaultRoles] }
            : n \in 0..MaxPages }

(***************************************************************************)
(* apply-performance-actions.js: harness of applyAction                    *)
(***************************************************************************)

\* answers of the file system to the three fs.access probes
AccessAnswers == [1..3 -> BOOLEAN]

\* answers of the generative service
GenAnswers ==
    { [ok |-> TRUE, text |-> <<" ", "t", " ", "x", " ">>],
      [ok |-> FALSE, message |-> "529 overloaded"] }

\* identifiers a hand-edited snapshot can hold that no tier list has
UnknownActions == {"add_internal_links", "refresh_content"}

\* the identifiers of the three tier lists
TierActions ==
    { AUTO_ACTIONS[k] : k \in 1..Len(AUTO_ACTIONS) } \cup
    { DRAFT_ACTIONS[k] : k \in 1..Len(DRAFT_ACTIONS) } \cup
    { REVIEW_ACTIONS[k] : k \in 1..Len(REVIEW_ACTIONS) }

InitAction ==
    /\ xpc = "ready"
    /\ pageArg \in { PerformanceRecord(Slugs[k], "B", "acquisition") : k \in 1..Len(Slugs) }
    /\ actionArg \in TierActions \cup UnknownActions
    /\ actionOutcome = <<>>
    /\ PolicyIdle
    /\ RolesIdle
    /\ AnalyzeIdle
    /\ DispatchIdle
    /\ AutoGenIdle

\* await applyAction(page, action)
CallApplyAction ==
    /\ xpc = "ready"
    /\ \E access \in AccessAnswers, gen \in GenAnswers :
          actionOutcome' = <<applyAction(pageArg, actionArg, access, gen)>>
    /\ xpc' = "returned"
    /\ UNCHANGED <<pageArg, actionArg>>
    /\ UNCHANGED <<policyVars, rolesVars, analyzeVars, dispatchVars, exitCode, autoGenVars>>

NextAction == CallApplyAction

SpecAction == InitAction /\ [][NextAction]_vars

(***************************************************************************)
(* analyze-performance.js: metrics adapter and classification run          *)
(***************************************************************************)

\* a PageMetrics record of the sample dataset; bounceRate is a fraction
MockMetrics(pv, en, eng, br, ex, ev) ==
    [ pageviews |-> pv, entrances |-> en, avgEngagement |-> eng,
      bounceRate |-> [num |-> br, den |-> 100], exits |-> ex, events |-> <<ev>> ]

\* the object without keys
EmptyObject == [name \in {} |-> 0]

\* function getMockData(): the entries of the returned object, in order
getMockData ==
    << [ pagePath |-> "/what-is-otherwhere",
         metrics |-> MockMetrics(250, 180, 95, 35, 80,
                                 [name \in {"sms_click", "gpt_click"} |->
                                     IF name = "sms_click" THEN 12 ELSE 8]) ],
       [ pagePath |-> "/otherwhere-vs-chatgpt",
         metrics |-> MockMetrics(180, 150, 72, 45, 100, [name \in {"sms_click"} |-> 3]) ],
       [ pagePath |-> "/what-is-ai-travel-concierge",
         metrics |-> MockMetrics(120, 90, 85, 50, 70, EmptyObject) ],
       [ pagePath |-> "/case-studies/honeymoon-puglia",
         metrics |-> MockMetrics(80, 60, 110, 30, 25, [name \in {"sms_click"} |-> 5]) ],
       [ pagePath |-> "/destinations/lisbon",
         metrics |-> MockMetrics(45, 35, 40, 65, 30, EmptyObject) ] >>

\* parseInt(value) || 0 and parseFloat(value) || 0: a metric value of the
\* provider is <<x>>, a string that parses to the number x, or <<>>, a
\* string that parses to NaN
parseOrZero(value) == IF value = <<>> THEN 0 ELSE value[1]

\* metrics[pagePath] = { pageviews: ..., exits: ... }: no events key is set
rowMetrics(row) ==
    [ pageviews |-> parseOrZero(row.metricValues[1]),
      entrances |-> parseOrZero(row.metricValues[2]),
      avgEngagement |-> parseOrZero(row.metricValues[3]),
      bounceRate |-> [num |-> parseOrZero(row.metricValues[4]), den |-> 100],
      exits |-> parseOrZero(row.metricValues[5]),
      events |-> <<>> ]

\* response.rows || []
rowsOf(response) == IF "rows" \in DOMAIN response THEN response.rows ELSE <<>>

\* for (const row of response.rows || []) metrics[pagePath] = {...}; the
\* page paths of a report are distinct
reportMetrics(response) ==
    [k \in 1..Len(rowsOf(response)) |->
        [ pagePath |-> rowsOf(response)[k].pagePath,
          metrics |-> rowMetrics(rowsOf(response)[k]) ]]

\* metrics[pagePath].events = metrics[pagePath].events || {};
\* metrics[pagePath].events[eventName] = count
setEvent(m, eventName, count) ==
    LET old == IF m.events = <<>> THEN EmptyObject ELSE m.events[1]
    IN [m EXCEPT !.events =
           <<[name \in DOMAIN old \cup {eventName} |->
                 IF name = eventName THEN count ELSE old[name]]>>]

\* for (const row of eventResponse.rows || []) { if (metrics[pagePath]) ... }
RECURSIVE joinEvents(_, _)
joinEvents(entries, rows) ==
    IF rows = <<>>
    THEN entries
    ELSE LET row == Head(rows)
             joined == [k \in 1..Len(entries) |->
                          IF entries[k].pagePath = row.pagePath
                          THEN [entries[k] EXCEPT !.metrics =
                                   setEvent(@, row.eventName, parseOrZero(row.count))]
                          ELSE entries[k]]
         IN joinEvents(joined, Tail(rows))

\* the elements of the page paths of the sample dataset (see the role
\* resolver for the representation)
tokens(pagePath) ==
    CASE pagePath = "/what-is-otherwhere" -> <<"/", "what-is-otherwhere">>
      [] pagePath = "/otherwhere-vs-chatgpt" -> <<"/", "otherwhere-vs-chatgpt">>
      [] pagePath = "/what-is-ai-travel-concierge" -> <<"/", "what-is-ai-travel-concierge">>
      [] pagePath = "/case-studies/honeymoon-puglia" ->
             <<"/", "case-studies", "/", "honeymoon-puglia">>
      [] pagePath = "/destinations/lisbon" -> <<"/", "destinations", "/", "lisbon">>
      [] OTHER -> <<"/", pagePath>>

\* the default roles of getContentRoles, used when the file cannot be read
defaultContentRoles ==
    << [key |-> <<"/", "what-is-otherwhere">>, role |-> "trust"],
       [key |-> <<"/", "otherwhere-vs-chatgpt">>, role |-> "acquisition"],
       [key |-> <<"/", "what-is-ai-travel-concierge">>, role |-> "comprehension"],
       [key |-> <<"/", "case-studies", "/", "*">>, role |-> "trust"],
       [key |-> <<"/", "destinations", "/", "*">>, role |-> "acquisition"] >>

\* async function getContentRoles()
getContentRoles(file) == IF file # <<>> THEN file[1] ELSE defaultContentRoles

\* const summary = { A: 0, B: 0, C: 0, D: 0, E: 0, F: 0, unchanged: 0 }
emptySummary == [key \in {"A", "B", "C", "D", "E", "F", "unchanged"} |-> 0]

\* mutant of tally: a page without bucket is not counted
tally_dropUnchanged(sum, b) ==
    IF b # Null THEN [sum EXCEPT ![b] = @ + 1] ELSE sum

\* if (bucket) { ... summary[bucket]++ } else { summary.unchanged++ }
tally(sum, b) ==
    IF b # Null
    THEN [sum EXCEPT ![b] = @ + 1]
    ELSE [sum EXCEPT !.unchanged = @ + 1]

\* mutant of pushRecord: a record is pushed for every page
pushRecord_always(recs, pagePath, role, b) ==
    Append(recs, PerformanceRecord(pagePath, b, role))

\* mutant of pushRecord: a trust page gets its record whatever its bucket
pushRecord_trustAlways(recs, pagePath, role, b) ==
    IF b # Null \/ role = "trust"
    THEN Append(recs, PerformanceRecord(pagePath, b, role))
    ELSE recs

\* if (bucket) { const actions = generateActions(bucket, role); results.push({...}) }
pushRecord(recs, pagePath, role, b) ==
    IF b # Null
    THEN Append(recs, PerformanceRecord(pagePath, b, role))
    ELSE recs

\* metric values of a report row: pageviews, entrances, averageSessionDuration,
\* bounceRate, exits; one row per outcome of the classifier, the last with a
\* page view count that does not parse
RowValues ==
    { << <<100>>, <<50>>, <<60>>, <<35>>, <<0>> >>,
      << <<100>>, <<1>>, <<40>>, <<35>>, <<0>> >>,
      << <<99>>, <<50>>, <<40>>, <<35>>, <<35>> >>,
      << <<45>>, <<35>>, <<40>>, <<65>>, <<30>> >>,
      << <<>>, <<0>>, <<40>>, <<35>>, <<0>> >> }

\* the reports of the page-counter query: a response without rows, or rows
\* for the first pages of Slugs, at most MaxPages of them
ReportResponses ==
    { [rowCount |-> 0] } \cup
    UNION { { [rows |-> [k \in 1..len |-> [pagePath |-> Slugs[k], metricValues |-> f[k]]]]
              : f \in [1..len -> RowValues] }
            : len \in 0..MaxPages }

\* the event rows of one page: none, a count of 0, a positive count
EventRowChoices == {"none", "zero", "positive"}

RECURSIVE eventRows(_, _)
eventRows(choice, k) ==
    IF k > Len(choice)
    THEN <<>>
    ELSE (IF choice[k] = "none"
          THEN <<>>
          ELSE <<[ pagePath |-> Slugs[k], eventName |-> "sms_click",
                   count |-> IF choice[k] = "zero" THEN <<0>> ELSE <<12>> ]>>)
         \o eventRows(choice, k + 1)

\* the reports of the conversion-event query for a page-counter report of
\* len rows: rows of those pages, possibly after a row of a page the first
\* report does not have
EventResponses(len) ==
    { [rowCount |-> 0] } \cup
    { [rows |-> eventRows(choice, 1)] : choice \in [1..len -> EventRowChoices] } \cup
    { [rows |-> <<[pagePath |-> "/not-in-report", eventName |-> "gpt_click",
                   count |-> <<3>>]>> \o eventRows(choice, 1)]
      : choice \in [1..len -> EventRowChoices] }

\* what the provider does with the two runReport calls: <<>> when the call
\* throws, <<response>> otherwise
ProviderAnswers ==
    { [report |-> <<>>, events |-> <<>>] } \cup
    UNION { { [report |-> <<r>>, events |-> e]
              : e \in {<<>>} \cup {<<x>> : x \in EventResponses(Len(rowsOf(r)))} }
            : r \in ReportResponses }

\* data/content-roles.json: missing, or one of two role maps
RolesFiles ==
    { <<>>,
      << << [key |-> <<"/", "*">>, role |-> "comprehension"] >> >>,
      << << [key |-> <<"/", "otherwhere-vs-chatgpt">>, role |-> "trust"],
            [key |-> <<"/", "*">>, role |-> "acquisition"] >> >> }

InitAnalyze ==
    /\ apc = "start"
    /\ propertyId \in BOOLEAN
    /\ provider \in ProviderAnswers
    /\ ~propertyId => provider = [report |-> <<>>, events |-> <<>>]
    /\ rolesFile \in RolesFiles
    /\ requests = 0
    /\ fetched = <<>>
    /\ roles = <<>>
    /\ entryIndex = 0
    /\ records = <<>>
    /\ summary = <<>>
    /\ classified = <<>>
    /\ snapshotFile = <<>>
    /\ analyzeRejected = <<>>
    /\ analyzeExitCode = <<>>
    /\ PolicyIdle
    /\ RolesIdle
    /\ DispatchIdle
    /\ ActionIdle
    /\ AutoGenIdle

analyzeLocals == <<roles, entryIndex, records, summary, classified, snapshotFile,
                   analyzeRejected, analyzeExitCode>>

\* if (!GA4_PROPERTY_ID) return getMockData()
FetchUnconfigured ==
    /\ apc = "start"
    /\ ~propertyId
    /\ fetched' = getMockData
    /\ apc' = "roles"
    /\ UNCHANGED <<propertyId, provider, rolesFile, requests>>
    /\ UNCHANGED analyzeLocals
    /\ UNCHANGED <<policyVars, rolesVars, dispatchVars, exitCode, actionVars, autoGenVars>>

\* const [response] = await analyticsDataClient.runReport(...); metrics = ...
RunReport ==
    /\ apc = "start"
    /\ propertyId
    /\ provider.report # <<>>
    /\ requests' = requests + 1
    /\ fetched' = reportMetrics(provider.report[1])
    /\ apc' = "events"
    /\ UNCHANGED <<propertyId, provider, rolesFile>>
    /\ UNCHANGED analyzeLocals
    /\ UNCHANGED <<policyVars, rolesVars, dispatchVars, exitCode, actionVars, autoGenVars>>

\* the first runReport throws: catch (error) { return getMockData() }
RunReportFails ==
    /\ apc = "start"
    /\ propertyId
    /\ provider.report = <<>>
    /\ requests' = requests + 1
    /\ fetched' = getMockData
    /\ apc' = "roles"
    /\ UNCHANGED <<propertyId, provider, rolesFile>>
    /\ UNCHANGED analyzeLocals
    /\ UNCHANGED <<policyVars, rolesVars, dispatchVars, exitCode, actionVars, autoGenVars>>

\* const [eventResponse] = await analyticsDataClient.runReport(...); the
\* event counts are joined onto the pages; return metrics
RunEventReport ==
    /\ apc = "events"
    /\ provider.events # <<>>
    /\ requests' = requests + 1
    /\ fetched' = joinEvents(fetched, rowsOf(provider.events[1]))
    /\ apc' = "roles"
    /\ UNCHANGED <<propertyId, provider, rolesFile>>
    /\ UNCHANGED analyzeLocals
    /\ UNCHANGED <<policyVars, rolesVars, dispatchVars, exitCode, actionVars, autoGenVars>>

\* mutant of RunEventReportFails: the catch returns what was fetched so far
RunEventReportFails_keepPartial ==
    /\ apc = "events"
    /\ provider.events = <<>>
    /\ requests' = requests + 1
    /\ fetched' = fetched
    /\ apc' = "roles"
    /\ UNCHANGED <<propertyId, provider, rolesFile>>
    /\ UNCHANGED analyzeLocals
    /\ UNCHANGED <<policyVars, rolesVars, dispatchVars, exitCode, actionVars, autoGenVars>>

\* the second runReport throws: catch (error) { return getMockData() }
RunEventReportFails ==
    /\ apc = "events"
    /\ provider.events = <<>>
    /\ requests' = requests + 1
    /\ fetched' = getMockData
    /\ apc' = "roles"
    /\ UNCHANGED <<propertyId, provider, rolesFile>>
    /\ UNCHANGED analyzeLocals
    /\ UNCHANGED <<policyVars, rolesVars, dispatchVars, exitCode, actionVars, autoGenVars>>

\* const roles = await getContentRoles(); const results = []; const summary = {...}
LoadRoles ==
    /\ apc = "roles"
    /\ roles' = getContentRoles(rolesFile)
    /\ records' = <<>>
    /\ summary' = emptySummary
    /\ entryIndex' = 1
    /\ apc' = "loop"
    /\ UNCHANGED <<propertyId, provider, rolesFile, requests, fetched, classified,
                   snapshotFile, analyzeRejected, analyzeExitCode>>
    /\ UNCHANGED <<policyVars, rolesVars, dispatchVars, exitCode, actionVars, autoGenVars>>

\* one iteration of for (const [pagePath, pageMetrics] of Object.entries(metrics))
AnalyzeOne ==
    /\ apc = "loop"
    /\ entryIndex <= Len(fetched)
    /\ LET pagePath == fetched[entryIndex].pagePath
           pageMetrics == fetched[entryIndex].metrics
           role == getPageRole(tokens(pagePath), roles)
           b == classifyPage(pagePath, pageMetrics, role)
       IN /\ records' = pushRecord(records, pagePath, role, b)
          /\ summary' = tally(summary, b)
          /\ classified' = Append(classified, [slug |-> pagePath, role |-> role, bucket |-> b])
    /\ entryIndex' = entryIndex + 1
    /\ UNCHANGED <<apc, propertyId, provider, rolesFile, requests, fetched, roles,
                   snapshotFile, analyzeRejected, analyzeExitCode>>
    /\ UNCHANGED <<policyVars, rolesVars, dispatchVars, exitCode, actionVars, autoGenVars>>

\* await fs.writeFile(outputPath, JSON.stringify({ generated_at, period, summary, pages }))
WriteSnapshot ==
    /\ apc = "loop"
    /\ entryIndex > Len(fetched)
    /\ snapshotFile' = <<[ generated_at |-> "now", period |-> "28_days",
                           summary |-> summary, pages |-> records ]>>
    /\ apc' = "done"
    /\ UNCHANGED <<propertyId, provider, rolesFile, requests, fetched, roles, entryIndex,
                   records, summary, classified, analyzeRejected, analyzeExitCode>>
    /\ UNCHANGED <<policyVars, rolesVars, dispatchVars, exitCode, actionVars, autoGenVars>>

\* fs.writeFile throws
WriteSnapshotFails ==
    /\ apc = "loop"
    /\ entryIndex > Len(fetched)
    /\ apc' = "rejected"
    /\ analyzeRejected' = <<"writeFile">>
    /\ UNCHANGED <<propertyId, provider, rolesFile, requests, fetched, roles, entryIndex,
                   records, summary, classified, snapshotFile, analyzeExitCode>>
    /\ UNCHANGED <<policyVars, rolesVars, dispatchVars, exitCode, actionVars, autoGenVars>>

\* analyzePerformance() resolved: the process ends with status 0
AnalyzeExitResolved ==
    /\ apc = "done"
    /\ analyzeExitCode = <<>>
    /\ analyzeExitCode' = <<0>>
    /\ UNCHANGED <<apc, propertyId, provider, rolesFile, requests, fetched, roles,
                   entryIndex, records, summary, classified, snapshotFile, analyzeRejected>>
    /\ UNCHANGED <<policyVars, rolesVars, dispatchVars, exitCode, actionVars, autoGenVars>>

\* analyzePerformance().catch(console.error): the process ends with status 0
AnalyzeExitRejected ==
    /\ apc = "rejected"
    /\ analyzeExitCode = <<>>
    /\ analyzeExitCode' = <<0>>
    /\ UNCHANGED <<apc, propertyId, provider, rolesFile, requests, fetched, roles,
                   entryIndex, records, summary, classified, snapshotFile, analyzeRejected>>
    /\ UNCHANGED <<policyVars, rolesVars, dispatchVars, exitCode, actionVars, autoGenVars>>

NextAnalyze ==
    \/ FetchUnconfigured
    \/ RunReport
    \/ RunReportFails
    \/ RunEventReport
    \/ RunEventReportFails
    \/ LoadRoles
    \/ AnalyzeOne
    \/ WriteSnapshot
    \/ WriteSnapshotFails
    \/ AnalyzeExitResolved
    \/ AnalyzeExitRejected

SpecAnalyze == InitAnalyze /\ [][NextAnalyze]_vars

\* the action-results log an earlier dispatch run left behind: a run over a
\* snapshot whose only page had no action
EarlierLog ==
    [ executed_at |-> "earlier",
      results |-> [applied |-> <<>>, generated |-> <<>>, flagged |-> <<>>,
                   skipped |-> <<>>, errors |-> <<>>] ]

\* mutant of pushResult: the result is put in front of its list
pushResult_unshift(res, result) ==
    LET key == IF result.status = "error" THEN "errors" ELSE result.status
    IN IF key \in DOMAIN res
       THEN [res EXCEPT ![key] = <<result>> \o @]
       ELSE res

\* results[result.status === 'error' ? 'errors' : result.status]?.push(result)
pushResult(res, result) ==
    LET key == IF result.status = "error" THEN "errors" ELSE result.status
    IN IF key \in DOMAIN res
       THEN [res EXCEPT ![key] = Append(@, result)]
       ELSE res

Init ==
    /\ pc = "start"
    /\ performanceFile \in {<<>>} \cup {<<d>> : d \in Snapshots}
    /\ data = <<>>
    /\ i = 0
    /\ j = 0
    /\ results = <<>>
    /\ calls = <<>>
    /\ resultsFile \in {<<>>, <<EarlierLog>>}
    /\ rejected = <<>>
    /\ exitCode = <<>>
    /\ PolicyIdle
    /\ RolesIdle
    /\ AnalyzeIdle
    /\ ActionIdle
    /\ AutoGenIdle

\* const data = await loadPerformanceData(): the file cannot be read
LoadFails ==
    /\ pc = "start"
    /\ performanceFile = <<>>
    /\ pc' = "rejected"
    /\ rejected' = <<"readFile">>
    /\ UNCHANGED <<performanceFile, data, i, j, results, calls, resultsFile>>
    /\ UNCHANGED <<exitCode, policyVars, rolesVars, analyzeVars, actionVars, autoGenVars>>

\* mutant of LoadNoPages: the early return writes an empty log first
LoadNoPages_writesEmptyLog ==
    /\ pc = "start"
    /\ performanceFile # <<>>
    /\ LET d == performanceFile[1]
       IN /\ IF "pages" \in DOMAIN d THEN Len(d.pages) = 0 ELSE TRUE
          /\ data' = d
    /\ pc' = "returned"
    /\ resultsFile' = <<[EarlierLog EXCEPT !.executed_at = "now"]>>
    /\ UNCHANGED <<performanceFile, i, j, results, calls, rejected>>
    /\ UNCHANGED <<exitCode, policyVars, rolesVars, analyzeVars, actionVars, autoGenVars>>

\* data loaded, but !data.pages || data.pages.length === 0: return
LoadNoPages ==
    /\ pc = "start"
    /\ performanceFile # <<>>
    /\ LET d == performanceFile[1]
       IN /\ IF "pages" \in DOMAIN d THEN Len(d.pages) = 0 ELSE TRUE
          /\ data' = d
    /\ pc' = "returned"
    /\ UNCHANGED <<performanceFile, i, j, results, calls, resultsFile, rejected>>
    /\ UNCHANGED <<exitCode, policyVars, rolesVars, analyzeVars, actionVars, autoGenVars>>

\* data loaded with pages: const results = {...}, the outer loop starts
Load ==
    /\ pc = "start"
    /\ performanceFile # <<>>
    /\ LET d == performanceFile[1]
       IN /\ "pages" \in DOMAIN d
          /\ Len(d.pages) # 0
          /\ data' = d
    /\ results' = [applied |-> <<>>, generated |-> <<>>, flagged |-> <<>>,
                   skipped |-> <<>>, errors |-> <<>>]
    /\ i' = 1
    /\ j' = 0
    /\ pc' = "page"
    /\ UNCHANGED <<performanceFile, calls, resultsFile, rejected>>
    /\ UNCHANGED <<exitCode, policyVars, rolesVars, analyzeVars, actionVars, autoGenVars>>

\* for (const page of data.pages): the next page, its inner loop starts
BeginPage ==
    /\ pc = "page"
    /\ i <= Len(data.pages)
    /\ j' = 1
    /\ pc' = "action"
    /\ UNCHANGED <<performanceFile, data, i, results, calls, resultsFile, rejected>>
    /\ UNCHANGED <<exitCode, policyVars, rolesVars, analyzeVars, actionVars, autoGenVars>>

\* const result = await applyAction(page, action); results[...]?.push(result)
ApplyOne ==
    /\ pc = "action"
    /\ j <= Len(data.pages[i].actions)
    /\ \E access \in AccessAnswers, gen \in GenAnswers :
          LET page == data.pages[i]
              action == page.actions[j]
              r == applyAction(page, action, access, gen)
          IN IF "status" \in DOMAIN r.result
             THEN /\ results' = pushResult(results, r.result)
                  /\ calls' = Append(calls, [ page |-> i, index |-> j, action |-> action,
                                              probed |-> r.probed,
                                              found |-> r.filePath # <<>>,
                                              generative |-> r.generative,
                                              written |-> r.written,
                                              result |-> r.result ])
                  /\ j' = j + 1
                  /\ UNCHANGED <<pc, rejected>>
             ELSE /\ pc' = "rejected"
                  /\ rejected' = <<"applyAction">>
                  /\ UNCHANGED <<results, calls, j>>
    /\ UNCHANGED <<performanceFile, data, i, resultsFile>>
    /\ UNCHANGED <<exitCode, policyVars, rolesVars, analyzeVars, actionVars, autoGenVars>>

\* the inner loop is over: on to the next page
EndPage ==
    /\ pc = "action"
    /\ j > Len(data.pages[i].actions)
    /\ i' = i + 1
    /\ pc' = "page"
    /\ UNCHANGED <<performanceFile, data, j, results, calls, resultsFile, rejected>>
    /\ UNCHANGED <<exitCode, policyVars, rolesVars, analyzeVars, actionVars, autoGenVars>>

\* mutant of EndLoop: the run returns after the loop without saving
EndLoop_skipsSave ==
    /\ pc = "page"
    /\ i > Len(data.pages)
    /\ pc' = "returned"
    /\ UNCHANGED <<performanceFile, data, i, j, results, calls, resultsFile, rejected>>
    /\ UNCHANGED <<exitCode, policyVars, rolesVars, analyzeVars, actionVars, autoGenVars>>

\* the outer loop is over
EndLoop ==
    /\ pc = "page"
    /\ i > Len(data.pages)
    /\ pc' = "save"
    /\ UNCHANGED <<performanceFile, data, i, j, results, calls, resultsFile, rejected>>
    /\ UNCHANGED <<exitCode, policyVars, rolesVars, analyzeVars, actionVars, autoGenVars>>

\* mutant of SaveResults: the run also marks the snapshot as applied
SaveResults_marksSnapshot ==
    /\ pc = "save"
    /\ resultsFile' = <<[executed_at |-> "now", results |-> results]>>
    /\ performanceFile' = <<[performanceFile[1] EXCEPT !.period = "applied"]>>
    /\ pc' = "done"
    /\ UNCHANGED <<data, i, j, results, calls, rejected>>
    /\ UNCHANGED <<exitCode, policyVars, rolesVars, analyzeVars, actionVars, autoGenVars>>

\* await fs.writeFile(outputPath, JSON.stringify({ executed_at, results }))
SaveResults ==
    /\ pc = "save"
    /\ resultsFile' = <<[executed_at |-> "now", results |-> results]>>
    /\ pc' = "done"
    /\ UNCHANGED <<performanceFile, data, i, j, results, calls, rejected>>
    /\ UNCHANGED <<exitCode, policyVars, rolesVars, analyzeVars, actionVars, autoGenVars>>

\* fs.writeFile throws
SaveFails ==
    /\ pc = "save"
    /\ pc' = "rejected"
    /\ rejected' = <<"writeFile">>
    /\ UNCHANGED <<performanceFile, data, i, j, results, calls, resultsFile>>
    /\ UNCHANGED <<exitCode, policyVars, rolesVars, analyzeVars, actionVars, autoGenVars>>

\* applyActions() resolved: nothing sets process.exitCode and nothing calls
\* process.exit, so the process ends with status 0
ExitResolved ==
    /\ pc \in {"done", "returned"}
    /\ exitCode = <<>>
    /\ exitCode' = <<0>>
    /\ UNCHANGED dispatchVars
    /\ UNCHANGED <<policyVars, rolesVars, analyzeVars, actionVars, autoGenVars>>

\* applyActions().catch(console.error): the rejection is handled by printing
\* the error, and the process ends with status 0 as well
ExitRejected ==
    /\ pc = "rejected"
    /\ exitCode = <<>>
    /\ exitCode' = <<0>>
    /\ UNCHANGED dispatchVars
    /\ UNCHANGED <<policyVars, rolesVars, analyzeVars, actionVars, autoGenVars>>

Next ==
    \/ LoadFails
    \/ LoadNoPages
    \/ Load
    \/ BeginPage
    \/ ApplyOne
    \/ EndPage
    \/ EndLoop
    \/ SaveResults
    \/ SaveFails
    \/ ExitResolved
    \/ ExitRejected

Spec == Init /\ [][Next]_vars

\* The run is one chain of awaited promises on the event loop: once the
\* awaited probe, generative call, read or write has settled, the
\* continuation runs.  A step that can be taken is therefore taken.
\* Runs that find no earlier log and read a snapshot of acquisition
\* pages, whose actions cover the three tiers, are the ones followed to
\* their end.
FairInit ==
    /\ Init
    /\ resultsFile = <<>>
    /\ performanceFile # <<>> =>
          IF "pages" \in DOMAIN performanceFile[1]
          THEN \A k \in 1..Len(performanceFile[1].pages) :
                  performanceFile[1].pages[k].content_role = "acquisition"
          ELSE TRUE

FairSpec == FairInit /\ [][Next]_vars /\ WF_vars(Next)

(***************************************************************************)
(* The weekly pipeline: analyze-performance.js, then                       *)
(* apply-performance-actions.js on the snapshot it wrote                   *)
(***************************************************************************)

\* The pipeline is followed from the runs of the analysis whose event
\* report, if there is one, has rows with a positive count for pages of the
\* page-counter report only.
InitPipeline ==
    /\ InitAnalyze
    /\ provider.events # <<>> =>
          \A n \in 1..Len(rowsOf(provider.events[1])) :
              /\ rowsOf(provider.events[1])[n].pagePath # "/not-in-report"
              /\ rowsOf(provider.events[1])[n].count # <<0>>

\* "Run after weekly analysis": the dispatch process starts once the
\* analysis process has ended, and finds data/content-performance.json as
\* the analysis left it
StartDispatch ==
    /\ analyzeExitCode # <<>>
    /\ pc = "idle"
    /\ pc' = "start"
    /\ performanceFile' = snapshotFile
    /\ UNCHANGED <<data, i, j, results, calls, resultsFile, rejected>>
    /\ UNCHANGED <<exitCode, policyVars, rolesVars, analyzeVars, actionVars, autoGenVars>>

NextPipeline ==
    \/ NextAnalyze
    \/ StartDispatch
    \/ Next

SpecPipeline == InitPipeline /\ [][NextPipeline]_vars

(***************************************************************************)
(* auto-generate.js: the daily run                                         *)
(***************************************************************************)

\* bound of the model: the longest topics queue
MaxQueue == 2

\* a topic of data/topics-queue.json: title and status, with or without an
\* id (generate-article.js looks a topic up by id or by slug)
QueueTopics ==
    { [title |-> "t", status |-> st] : st \in {"queued", "published"} } \cup
    { [id |-> n, title |-> "t", status |-> st]
      : n \in {"lisbon", "tokyo"}, st \in {"queued", "published"} }

\* titles of the topics of a queue, by position
QueueTitles == <<"first", "second", "third", "fourth">>

\* the queues of at most MaxQueue topics
Queues ==
    UNION { { [k \in 1..len |-> [f[k] EXCEPT !.title = QueueTitles[k]]]
              : f \in [1..len -> QueueTopics] }
            : len \in 0..MaxQueue }

\* t.id, undefined (<<>>) when the topic has no id
idOf(t) == IF "id" \in DOMAIN t THEN <<t.id>> ELSE <<>>

\* const pending = queue.filter(t => t.status === 'queued')
pending(queue) == SelectSeq(queue, LAMBDA t : t.status = "queued")

\* index in the queue of pending[0]
firstQueued(queue) ==
    CHOOSE k \in 1..Len(queue) :
        /\ queue[k].status = "queued"
        /\ \A l \in 1..(k - 1) : queue[l].status # "queued"

\* topic = pending[0]; topic.status = 'published': topic is the object the
\* queue holds, so the assignment changes the queue entry as well
markPublished(queue) == [queue EXCEPT ![firstQueued(queue)].status = "published"]

\* queue.map(t => t.id === topic.id ? { ...t, status: 'published' } : t)
updatedQueue(queue) ==
    LET marked == markPublished(queue)
        picked == marked[firstQueued(queue)]
    IN [k \in 1..Len(marked) |->
          IF idOf(marked[k]) = idOf(picked)
          THEN [marked[k] EXCEPT !.status = "published"]
          ELSE marked[k]]

\* function generateTopicIdea(): a random template of a random pillar with
\* its placeholders filled in; primaryKeyword is derived from the title
GeneratedTopics ==
    { [title |-> "Where to stay in Lisbon: A curated guide", pillar |-> "curated-destinations"],
      [title |-> "Why text-first booking is the future of travel", pillar |-> "new-concierge"] }

InitAutoGen ==
    /\ gpc = "start"
    /\ queueFile \in {<<>>} \cup {<<q>> : q \in Queues}
    /\ topic = <<>>
    /\ consoleLog = <<>>
    /\ lastGeneratedTitle = <<>>
    /\ autoGenExitCode = <<>>
    /\ PolicyIdle
    /\ RolesIdle
    /\ AnalyzeIdle
    /\ DispatchIdle
    /\ ActionIdle

autoGenOthers == <<policyVars, rolesVars, analyzeVars, dispatchVars, exitCode, actionVars>>

\* fs.readFile or JSON.parse throws, or the content is no array and
\* queue.filter throws: catch (e) { console.log('No queue found, ...') }
ReadQueueFails ==
    /\ gpc = "start"
    /\ queueFile = <<>>
    /\ consoleLog' = Append(consoleLog, "No queue found, generating new topic")
    /\ gpc' = "checked"
    /\ UNCHANGED <<queueFile, topic, lastGeneratedTitle, autoGenExitCode>>
    /\ UNCHANGED autoGenOthers

\* the queue is read and pending.length > 0 is false
NoPendingTopic ==
    /\ gpc = "start"
    /\ queueFile # <<>>
    /\ pending(queueFile[1]) = <<>>
    /\ gpc' = "checked"
    /\ UNCHANGED <<queueFile, topic, consoleLog, lastGeneratedTitle, autoGenExitCode>>
    /\ UNCHANGED autoGenOthers

\* pending.length > 0: the first queued topic is picked and the queue file
\* is rewritten
UseQueuedTopic ==
    /\ gpc = "start"
    /\ queueFile # <<>>
    /\ pending(queueFile[1]) # <<>>
    /\ topic' = <<markPublished(queueFile[1])[firstQueued(queueFile[1])]>>
    /\ queueFile' = <<updatedQueue(queueFile[1])>>
    /\ consoleLog' = Append(consoleLog, "Using queued topic")
    /\ gpc' = "checked"
    /\ UNCHANGED <<lastGeneratedTitle, autoGenExitCode>>
    /\ UNCHANGED autoGenOthers

\* pending.length > 0, but fs.writeFile of the queue throws: topic is
\* already assigned when the catch clause runs
QueueWriteFails ==
    /\ gpc = "start"
    /\ queueFile # <<>>
    /\ pending(queueFile[1]) # <<>>
    /\ topic' = <<markPublished(queueFile[1])[firstQueued(queueFile[1])]>>
    /\ consoleLog' = Append(consoleLog, "No queue found, generating new topic")
    /\ gpc' = "checked"
    /\ UNCHANGED <<queueFile, lastGeneratedTitle, autoGenExitCode>>
    /\ UNCHANGED autoGenOthers

\* if (!topic) { topic = generateTopicIdea() }
GenerateNewTopic ==
    /\ gpc = "checked"
    /\ topic = <<>>
    /\ \E idea \in GeneratedTopics : topic' = <<idea>>
    /\ consoleLog' = Append(consoleLog, "Generated new topic")
    /\ gpc' = "article"
    /\ UNCHANGED <<queueFile, lastGeneratedTitle, autoGenExitCode>>
    /\ UNCHANGED autoGenOthers

\* if (!topic) is false: the picked topic is kept
KeepTopic ==
    /\ gpc = "checked"
    /\ topic # <<>>
    /\ gpc' = "article"
    /\ UNCHANGED <<queueFile, topic, consoleLog, lastGeneratedTitle, autoGenExitCode>>
    /\ UNCHANGED autoGenOthers

\* await generateArticle(topic): the article is written and
\* .last-generated-title holds the title of the topic
GenerateArticle ==
    /\ gpc = "article"
    /\ lastGeneratedTitle' = <<topic[1].title>>
    /\ consoleLog' = Append(consoleLog, "Daily article generated successfully!")
    /\ gpc' = "done"
    /\ UNCHANGED <<queueFile, topic, autoGenExitCode>>
    /\ UNCHANGED autoGenOthers

\* generateArticle throws: in the generative call or a write before
\* .last-generated-title is written, or in a write after it
GenerateArticleFails ==
    /\ gpc = "article"
    /\ lastGeneratedTitle' \in {lastGeneratedTitle, <<topic[1].title>>}
    /\ gpc' = "rejected"
    /\ UNCHANGED <<queueFile, topic, consoleLog, autoGenExitCode>>
    /\ UNCHANGED autoGenOthers

\* main().catch(console.error): the process ends with status 0 either way
AutoGenExit ==
    /\ gpc \in {"done", "rejected"}
    /\ autoGenExitCode = <<>>
    /\ autoGenExitCode' = <<0>>
    /\ UNCHANGED <<gpc, queueFile, topic, consoleLog, lastGeneratedTitle>>
    /\ UNCHANGED autoGenOthers

NextAutoGen ==
    \/ ReadQueueFails
    \/ NoPendingTopic
    \/ UseQueuedTopic
    \/ QueueWriteFails
    \/ GenerateNewTopic
    \/ KeepTopic
    \/ GenerateArticle
    \/ GenerateArticleFails
    \/ AutoGenExit

SpecAutoGen == InitAutoGen /\ [][NextAutoGen]_vars

(***************************************************************************)
(* Properties of the dispatch run (Spec)                                   *)
(***************************************************************************)

\* the (page, action) pairs of a snapshot in page order and declared order
RECURSIVE PairsFrom(_, _)
PairsFrom(pages, k) ==
    IF k > Len(pages)
    THEN <<>>
    ELSE [n \in 1..Len(pages[k].actions) |-> <<k, n>>] \o PairsFrom(pages, k + 1)

AllPairs == IF "pages" \in DOMAIN data THEN PairsFrom(data.pages, 1) ELSE <<>>

\* the pairs applyAction has returned a result for, in call order
CallPairs == [k \in 1..Len(calls) |-> <<calls[k].page, calls[k].index>>]

\* number of entries over all lists of a results object
RECURSIVE CountEntries(_, _)
CountEntries(res, keys) ==
    IF keys = {}
    THEN 0
    ELSE LET key == CHOOSE x \in keys : TRUE
         IN Len(res[key]) + CountEntries(res, keys \ {key})

\* the list a result of the given status belongs to
ListOfStatus(status) == IF status = "error" THEN "errors" ELSE status

\* C1: a dispatch run over a snapshot whose pages hold K actions in total
\* records exactly K results in the persisted log: the sizes of the
\* per-status lists sum to K.
C1_ResultCompleteness ==
    pc = "done" =>
        CountEntries(resultsFile[1].results, DOMAIN resultsFile[1].results)
            = Len(AllPairs)

\* C2: a generative call that throws does not abort the run: applyActions
\* never rejects because of an action, the calls made so far are exactly the
\* first (page, action) pairs of the snapshot in order, and when the loop is
\* over every pair has been dispatched and has its own result.
C2_FailureIsolation ==
    /\ rejected # <<"applyAction">>
    /\ Len(calls) <= Len(AllPairs)
    /\ CallPairs = SubSeq(AllPairs, 1, Len(calls))
    /\ pc \in {"save", "done"} => CallPairs = AllPairs

\* C2 witness: the run is over, the first action of page 1 ended in a thrown
\* generative call, and actions of page 1 and of page 2 were dispatched later
C2_Witness ==
    /\ pc = "done"
    /\ Len(calls) >= 3
    /\ calls[1].generative # <<>>
    /\ ~calls[1].generative[1].outcome.ok
    /\ calls[2].page = 1
    /\ calls[Len(calls)].page = 2

\* C3: applyAction never throws, and an auto-tier action whose generative
\* call throws yields a result of status error whose message carries the
\* message of the thrown error.
C3_ErrorBecomesResult ==
    /\ rejected # <<"applyAction">>
    /\ \A k \in 1..Len(calls) :
          LET c == calls[k]
          IN (c.generative # <<>> /\ ~c.generative[1].outcome.ok) =>
                /\ includes(AUTO_ACTIONS, c.action)
                /\ c.result.status = "error"
                /\ \E n \in 1..Len(c.result.message) :
                      c.result.message[n] = c.generative[1].outcome.message

\* C3 witness: a generative call threw and applyAction returned status error
C3_Witness ==
    \E k \in 1..Len(calls) :
        /\ calls[k].generative # <<>>
        /\ ~calls[k].generative[1].outcome.ok
        /\ calls[k].result.status = "error"

\* C4: for each of the five auto-tier actions, when a page file exists and
\* the generative call does not throw, applyAction calls the generative
\* service and returns status generated with the produced text as output.
C4_AutoTierGenerates ==
    \A k \in 1..Len(calls) :
        LET c == calls[k]
        IN ( /\ includes(AUTO_ACTIONS, c.action)
             /\ c.found
             /\ \A n \in 1..Len(c.generative) : c.generative[n].outcome.ok ) =>
              /\ Len(c.generative) = 1
              /\ c.result.status = "generated"
              /\ "output" \in DOMAIN c.result

\* C5: the persisted log holds the six lists applied, generated, draft,
\* flagged, skipped and errors, and every result of the run is stored in the
\* list of its own status (status error in errors).
C5_SixLists ==
    pc = "done" =>
        LET persisted == resultsFile[1].results
        IN /\ DOMAIN persisted =
                 {"applied", "generated", "draft", "flagged", "skipped", "errors"}
           /\ \A k \in 1..Len(calls) :
                 LET list == ListOfStatus(calls[k].result.status)
                 IN /\ list \in DOMAIN persisted
                    /\ \E n \in 1..Len(persisted[list]) :
                          persisted[list][n] = calls[k].result


\* C15 (dispatch command): the command exits with status 0 when it
\* completes, and with a non-zero status when it cannot read its input file
\* data/content-performance.json.
C15_ExitStatus ==
    exitCode # <<>> =>
        /\ pc \in {"done", "returned"} => exitCode = <<0>>
        /\ rejected = <<"readFile">> => exitCode # <<0>>

\* C16 (results log): when writing the action-results log fails the run does
\* not report completion and does not end as a successful run.
C16_WriteFailureIsFatal ==
    rejected = <<"writeFile">> =>
        /\ pc # "done"
        /\ resultsFile \in {<<>>, <<EarlierLog>>}
        /\ exitCode # <<>> => exitCode # <<0>>

\* C19: an auto-tier action whose slug resolves to none of the candidate
\* paths yields status skipped without a generative call, and the run
\* continues: applyActions does not reject there.
C19_TargetNotFound ==
    /\ rejected # <<"applyAction">>
    /\ \A k \in 1..Len(calls) :
          LET c == calls[k]
          IN (includes(AUTO_ACTIONS, c.action) /\ ~c.found) =>
                /\ c.probed
                /\ c.result.status = "skipped"
                /\ c.generative = <<>>
    /\ pc \in {"save", "done"} => Len(calls) = Len(AllPairs)

\* C19 witness: the run is over; an implemented auto-tier action found no
\* page file and was skipped, and a later action was dispatched
C19_Witness ==
    /\ pc = "done"
    /\ Len(calls) >= 2
    /\ calls[1].action = "rewrite_meta"
    /\ ~calls[1].found
    /\ calls[1].result.status = "skipped"

\* C20: a review-only action yields status flagged at once: no page file is
\* probed, no generative call is made, and the result is in the flagged
\* list.
C20_ReviewOnly ==
    \A k \in 1..Len(calls) :
        LET c == calls[k]
        IN includes(REVIEW_ACTIONS, c.action) =>
              /\ c.result.status = "flagged"
              /\ ~c.probed
              /\ ~c.found
              /\ c.generative = <<>>
              /\ \E m \in 1..Len(results.flagged) : results.flagged[m] = c.result

\* C20 witness: the run is over and review-only actions of two pages, one
\* of them between two auto-tier actions, were dispatched and flagged
C20_Witness ==
    /\ pc = "done"
    /\ \E k \in 1..Len(calls) : /\ calls[k].action = "consider_noindex"
                                /\ calls[k].result.status = "flagged"
    /\ \E k \in 1..Len(calls) : /\ calls[k].action = "strengthen_internal_links"
                                /\ calls[k].result.status = "flagged"

C22_ResultCarriesSlugAndAction ==
    \A k \in 1..Len(calls) :
        LET c == calls[k]
        IN /\ {"status", "slug", "action", "message"} \subseteq DOMAIN c.result
           /\ c.result.slug = data.pages[c.page].slug
           /\ c.result.action = c.action

\* the calls whose result belongs to the given list, in call order
CallsOfList(list) ==
    SelectSeq(calls, LAMBDA c : ListOfStatus(c.result.status) = list)

\* number of actions of the first k pages
RECURSIVE ActionsBefore(_, _)
ActionsBefore(pages, k) ==
    IF k = 0 THEN 0 ELSE Len(pages[k].actions) + ActionsBefore(pages, k - 1)

\* C23: pages are processed one after another and the actions of a page in
\* declared order, all actions of a page before the next page starts; the
\* entries of every list of the results log are in that order.
C23_SequentialOrder ==
    /\ CallPairs = SubSeq(AllPairs, 1, Len(calls))
    /\ pc = "action" => Len(calls) = ActionsBefore(data.pages, i - 1) + (j - 1)
    /\ pc = "page" => Len(calls) = ActionsBefore(data.pages, i - 1)
    /\ \A list \in DOMAIN results :
          results[list] = [k \in 1..Len(CallsOfList(list)) |-> CallsOfList(list)[k].result]
    /\ pc = "done" => resultsFile[1].results = results

\* C23 witness: the log was written; its generated list holds four entries,
\* two of page 1 followed by two of page 2
C23_Witness ==
    /\ pc = "done"
    /\ Len(resultsFile[1].results.generated) = 4
    /\ CallsOfList("generated")[2].page = 1
    /\ CallsOfList("generated")[3].page = 2

C28_NoPagesNoLog ==
    [][pc' = "returned" => resultsFile' = resultsFile]_vars

\* C28 witness: the run returned early and the log of the earlier run is
\* still there
C28_Witness ==
    /\ pc = "returned"
    /\ exitCode = <<0>>
    /\ resultsFile = <<EarlierLog>>


C30_UnknownActionSkipped ==
    (xpc = "returned" /\ actionArg \in UnknownActions) =>
        LET r == actionOutcome[1]
        IN /\ r.probed
           /\ r.result.status = "skipped"
           /\ r.generative = <<>>
           /\ r.result.message =
                 IF r.filePath = <<>>
                 THEN <<pageArg.slug, ": file not found">>
                 ELSE <<pageArg.slug, ": ", actionArg, " - not implemented">>

\* C30 witness: an unlisted identifier was applied to a page whose file
\* exists and came back as skipped
C30_Witness ==
    /\ xpc = "returned"
    /\ actionArg = "refresh_content"
    /\ actionOutcome[1].filePath # <<>>
    /\ actionOutcome[1].result.status = "skipped"

(***************************************************************************)
(* Properties of the pipeline (SpecPipeline)                               *)
(***************************************************************************)

\* the calls of the dispatch run made for the page of the given index
CallsOfPage(p) == SelectSeq(calls, LAMBDA c : c.page = p)

\* C24: every record the classification run writes with content_role trust
\* has the actions <<flag_for_review>>; dispatching it makes no generative
\* call and yields one result, of status flagged.
C24_TrustIsNeverAutomated ==
    /\ \A k \in 1..Len(records) :
          records[k].content_role = "trust" => records[k].actions = <<"flag_for_review">>
    /\ snapshotFile # <<>> => snapshotFile[1].pages = records
    /\ pc \in {"page", "action", "save", "done"} =>
          \A p \in 1..Len(data.pages) :
              data.pages[p].content_role = "trust" =>
                  /\ \A n \in 1..Len(CallsOfPage(p)) :
                        /\ CallsOfPage(p)[n].result.status = "flagged"
                        /\ CallsOfPage(p)[n].generative = <<>>
                  /\ Len(CallsOfPage(p)) <= 1
                  /\ (pc \in {"save", "done"} \/ i > p) => Len(CallsOfPage(p)) = 1

\* C24 witness: the pipeline is over; the snapshot held a trust page and a
\* page of another role for which a text was generated
C24_Witness ==
    /\ pc = "done"
    /\ \E p \in 1..Len(data.pages) :
          /\ data.pages[p].content_role = "trust"
          /\ CallsOfPage(p)[1].result.status = "flagged"
    /\ \E n \in 1..Len(calls) : calls[n].result.status = "generated"

\* C27: the classification run writes records of buckets A, B, C, D, F
\* only; a page classified none, a trust page included, has no record in
\* the snapshot, and the dispatch run that follows makes no call for it.
C27_NoneGetsNoGuardrail ==
    /\ \A n \in 1..Len(records) : records[n].bucket \in Buckets
    /\ \A k \in 1..Len(classified) :
          classified[k].bucket = Null =>
              /\ \A n \in 1..Len(records) : records[n].slug # classified[k].slug
              /\ snapshotFile # <<>> =>
                    \A n \in 1..Len(snapshotFile[1].pages) :
                        snapshotFile[1].pages[n].slug # classified[k].slug
              /\ \A n \in 1..Len(calls) :
                    data.pages[calls[n].page].slug # classified[k].slug

\* C27 witness: the pipeline is over; a trust page was classified none, and
\* the dispatch run flagged another trust page for review
C27_Witness ==
    /\ pc = "done"
    /\ \E k \in 1..Len(classified) :
          /\ classified[k].role = "trust"
          /\ classified[k].bucket = Null
    /\ \E n \in 1..Len(calls) : calls[n].action = "flag_for_review"

(***************************************************************************)
(* Properties of the daily run (SpecAutoGen)                               *)
(***************************************************************************)

Converted(m) ==
    /\ m.events # <<>>
    /\ \E name \in DOMAIN m.events[1] : m.events[1][name] > 0

\* the five rules as the specification words them
RuleA(m) == m.pageviews >= 100 /\ m.avgEngagement >= 60 /\ Converted(m)
RuleB(m) == m.pageviews >= 100 /\ 100 * m.entrances < 2 * m.pageviews
RuleC(m) == m.avgEngagement >= 60 /\ ~Converted(m)
RuleD(m) == m.entrances >= 50 /\ 10 * m.exits >= 7 * m.entrances
RuleF(m) == m.pageviews < 10 /\ m.avgEngagement < 60

FirstSatisfiedRule(m) ==
    CASE RuleA(m) -> "A"
      [] ~RuleA(m) /\ RuleB(m) -> "B"
      [] ~RuleA(m) /\ ~RuleB(m) /\ RuleC(m) -> "C"
      [] ~RuleA(m) /\ ~RuleB(m) /\ ~RuleC(m) /\ RuleD(m) -> "D"
      [] ~RuleA(m) /\ ~RuleB(m) /\ ~RuleC(m) /\ ~RuleD(m) /\ RuleF(m) -> "F"
      [] OTHER -> Null

Classified == ppc \in {"classified", "policy"}

\* C6: for role trust, generateActions returns exactly [flag_for_review] for
\* every bucket value A, B, C, D, F and none, whatever the bucket's own list.
C6_TrustOverride ==
    (ppc = "policy" /\ roleArg = "trust") => actions = <<"flag_for_review">>

\* C6 witness: generateActions was called with role trust and no bucket
C6_Witness ==
    /\ ppc = "policy"
    /\ roleArg = "trust"
    /\ bucketArg = Null
    /\ actions = <<"flag_for_review">>

\* C7: classifyPage returns exactly one outcome of {A, B, C, D, F, none}, and
\* it is the first satisfied rule of the ordered chain A, B, C, D, F, with
\* inclusive >= comparisons.
C7_FirstRuleWins ==
    Classified =>
        /\ bucket \in {"A", "B", "C", "D", "F", Null}
        /\ bucket = FirstSatisfiedRule(metrics)

\* C7 witness: pageviews exactly 100, avgEngagement exactly 60, a conversion: A
C7_Witness ==
    /\ Classified
    /\ metrics.pageviews = 100
    /\ metrics.avgEngagement = 60
    /\ Converted(metrics)
    /\ bucket = "A"

\* C8: metrics satisfying A's predicate are classified A even when a later
\* predicate also holds, and a later bucket is returned only when the
\* predicates of all earlier buckets are false.
C8_Exclusivity ==
    Classified =>
        /\ RuleA(metrics) => bucket = "A"
        /\ bucket = "B" => ~RuleA(metrics)
        /\ bucket = "C" => ~RuleA(metrics) /\ ~RuleB(metrics)
        /\ bucket = "D" => ~RuleA(metrics) /\ ~RuleB(metrics) /\ ~RuleC(metrics)
        /\ bucket = "F" => ~RuleA(metrics) /\ ~RuleB(metrics) /\ ~RuleC(metrics)
                           /\ ~RuleD(metrics)

\* C8 witness: A's and B's predicates both hold and A was returned
C8_Witness ==
    /\ Classified
    /\ RuleA(metrics)
    /\ RuleB(metrics)
    /\ bucket = "A"

\* C9: with entrances = 0 the exit rate is taken to be 0, classifyPage returns
\* a defined outcome, and the outcome is never D.
C9_ZeroEntrances ==
    (Classified /\ metrics.entrances = 0) =>
        /\ exitRate(metrics) = [num |-> 0, den |-> 1]
        /\ bucket \in {"A", "B", "C", "F", Null}

\* C9 witness: a page with exits but no entrance was classified
C9_Witness ==
    /\ Classified
    /\ metrics.entrances = 0
    /\ metrics.exits > 0
    /\ bucket = Null

\* the bucket -> action list table of the specification, for a role other
\* than trust
ExpectedActions(b, role) ==
    CASE b = "A" -> <<"expand_topic_cluster", "add_internal_links_to", "add_faq_block">>
      [] b = "B" -> <<"rewrite_meta", "add_quick_answer">>
      [] b = "C" /\ role # "comprehension" -> <<"swap_cta_variant", "add_mid_article_cta">>
      [] b = "C" /\ role = "comprehension" -> <<>>
      [] b = "D" -> <<"add_next_steps_section", "strengthen_internal_links",
                      "add_related_content">>
      [] b = "F" /\ role = "comprehension" -> <<"flag_for_review">>
      [] b = "F" /\ role # "comprehension" -> <<"consider_noindex", "rewrite_with_new_angle">>
      [] OTHER -> <<>>

\* C10: for every role other than trust, generateActions returns exactly the
\* fixed ordered list of its bucket (C and F depend on role comprehension;
\* none or an unknown bucket gives the empty list).
C10_BucketTable ==
    (ppc = "policy" /\ roleArg # "trust") =>
        actions = ExpectedActions(bucketArg, roleArg)

\* C10 witness: bucket C with role comprehension gave the empty list
C10_Witness ==
    /\ ppc = "policy"
    /\ roleArg = "comprehension"
    /\ bucketArg = "C"
    /\ actions = <<>>

\* the number of tier lists that hold the action identifier
TierCount(action) ==
    Cardinality({ t \in {"auto", "draft", "review"} :
                    \/ t = "auto" /\ \E k \in 1..Len(AUTO_ACTIONS) : AUTO_ACTIONS[k] = action
                    \/ t = "draft" /\ \E k \in 1..Len(DRAFT_ACTIONS) : DRAFT_ACTIONS[k] = action
                    \/ t = "review" /\ \E k \in 1..Len(REVIEW_ACTIONS) : REVIEW_ACTIONS[k] = action })

ListedActions ==
    {AUTO_ACTIONS[k] : k \in 1..Len(AUTO_ACTIONS)}
        \cup {DRAFT_ACTIONS[k] : k \in 1..Len(DRAFT_ACTIONS)}
        \cup {REVIEW_ACTIONS[k] : k \in 1..Len(REVIEW_ACTIONS)}

\* C11: no action identifier is in two of the lists AUTO_ACTIONS,
\* DRAFT_ACTIONS, REVIEW_ACTIONS, and every identifier generateActions emits
\* for any (bucket, role) is in exactly one of them.
C11_TiersPartition ==
    /\ \A a \in ListedActions : TierCount(a) = 1
    /\ ppc = "policy" => \A k \in 1..Len(actions) : TierCount(actions[k]) = 1

\* C11 witness: generateActions emitted the list of bucket D, whose actions
\* lie in the auto and the review tier
C11_Witness ==
    /\ ppc = "policy"
    /\ bucketArg = "D"
    /\ Len(actions) = 3
    /\ TierCount(actions[2]) = 1

(***************************************************************************)
(* Properties of the role resolver (SpecRoles)                             *)
(***************************************************************************)

\* the key ends in the wildcard suffix and pagePath starts with its prefix
WildcardCovers(key, path) ==
    /\ Len(key) >= 2
    /\ key[Len(key)] = "*"
    /\ key[Len(key) - 1] = "/"
    /\ Len(path) >= Len(key) - 1
    /\ \A t \in 1..(Len(key) - 1) : path[t] = key[t]

\* C12: getPageRole returns the role of the exact key when the map has one,
\* even if a wildcard entry also matches; otherwise the role of the first
\* entry in iteration order whose wildcard key covers pagePath; otherwise
\* acquisition.
C12_RoleResolution ==
    rpc = "resolved" =>
        LET exact == {k \in 1..Len(rolesArg) : rolesArg[k].key = pagePathArg}
            wild == {k \in 1..Len(rolesArg) : WildcardCovers(rolesArg[k].key, pagePathArg)}
        IN /\ exact # {} => \A k \in exact : roleResult = rolesArg[k].role
           /\ (exact = {} /\ wild # {}) =>
                 \E k \in wild : /\ \A l \in wild : k <= l
                                 /\ roleResult = rolesArg[k].role
           /\ (exact = {} /\ wild = {}) => roleResult = "acquisition"

\* C12 witness: an earlier wildcard entry with another role covers the path,
\* and the role of the exact key was returned
C12_Witness ==
    /\ rpc = "resolved"
    /\ Len(rolesArg) = 2
    /\ WildcardCovers(rolesArg[1].key, pagePathArg)
    /\ rolesArg[2].key = pagePathArg
    /\ rolesArg[1].role # rolesArg[2].role
    /\ roleResult = rolesArg[2].role

(***************************************************************************)
(* Properties of the classification run (SpecAnalyze)                      *)
(***************************************************************************)

\* fetchGA4Metrics has returned
FetchReturned == apc \in {"roles", "loop", "done", "rejected"}

\* the run was configured and both provider requests were answered
LiveMode == propertyId /\ provider.report # <<>> /\ provider.events # <<>>

\* C13: fetchGA4Metrics never throws; when the property identifier is unset
\* or one of the two provider requests fails it returns the whole sample
\* dataset of five pages after a single attempt: no request is repeated and
\* nothing of the live data is kept.
C13_FallbackToSample ==
    /\ analyzeRejected \in {<<>>, <<"writeFile">>}
    /\ requests <= 2
    /\ (FetchReturned /\ ~LiveMode) =>
          /\ fetched = getMockData
          /\ Len(fetched) = 5
          /\ requests = IF ~propertyId THEN 0
                        ELSE IF provider.report = <<>> THEN 1 ELSE 2

\* C13 witness: the page-counter query returned rows, the event query
\* failed, and the sample dataset was returned
C13_Witness ==
    /\ apc = "roles"
    /\ propertyId
    /\ provider.report # <<>>
    /\ Len(rowsOf(provider.report[1])) >= 1
    /\ provider.events = <<>>
    /\ requests = 2
    /\ fetched = getMockData

\* C14: in live mode every page of the page-counter query has a PageMetrics
\* whose events field is a mapping (empty when the event query has no row
\* for the page), never undefined.
C14_EventsNeverUndefined ==
    (FetchReturned /\ LiveMode) =>
        \A k \in 1..Len(fetched) : fetched[k].metrics.events # <<>>

\* the entries processed so far that were classified none
UnchangedEntries == {k \in 1..Len(classified) : classified[k].bucket = Null}

\* C17: a page classified none has no record (so no action) in the results
\* or in the written snapshot, and is counted once in summary.unchanged.
C17_NoneIsUnchanged ==
    apc \in {"loop", "done", "rejected"} =>
        /\ summary.unchanged = Cardinality(UnchangedEntries)
        /\ \A k \in UnchangedEntries :
              /\ \A r \in 1..Len(records) : records[r].slug # classified[k].slug
              /\ snapshotFile # <<>> =>
                    \A r \in 1..Len(snapshotFile[1].pages) :
                        snapshotFile[1].pages[r].slug # classified[k].slug
        /\ snapshotFile # <<>> =>
              snapshotFile[1].summary.unchanged = Cardinality(UnchangedEntries)

\* C17 witness: a snapshot was written by a live run in which one page was
\* classified none and another page got a record
C17_Witness ==
    /\ apc = "done"
    /\ LiveMode
    /\ snapshotFile # <<>>
    /\ snapshotFile[1].summary.unchanged = 1
    /\ Len(snapshotFile[1].pages) = 1

\* C18: in every persisted snapshot summary[b] is the number of records of
\* bucket b, for b in A, B, C, D, F, and the bucket counts plus
\* summary.unchanged add up to the number of pages the adapter returned.
C18_SummaryCounts ==
    snapshotFile # <<>> =>
        LET snap == snapshotFile[1]
            Count(b) == Cardinality({r \in 1..Len(snap.pages) : snap.pages[r].bucket = b})
        IN /\ \A b \in {"A", "B", "C", "D", "F"} : snap.summary[b] = Count(b)
           /\ snap.summary["A"] + snap.summary["B"] + snap.summary["C"]
                 + snap.summary["D"] + snap.summary["E"] + snap.summary["F"]
                 + snap.summary.unchanged = Len(fetched)

\* C18 witness: a snapshot of a live run with records of two buckets
C18_Witness ==
    /\ snapshotFile # <<>>
    /\ LiveMode
    /\ Len(snapshotFile[1].pages) = 2
    /\ snapshotFile[1].pages[1].bucket # snapshotFile[1].pages[2].bucket

====
